---- MODULE Spec2Model ----
(***************************************************************************)
(* Windowed signal-analysis core of the blackbox log viewer: time          *)
(* normalisation, frame windowing, step-response masks, the throttle noise *)
(* analyzer, the Welch spectrum path and the spectrogram.                  *)
(*                                                                         *)
(* Numbers.  A time value is an integer count of ticks; a column carries   *)
(* `res`, the ticks per unit, so the value it holds is ticks/res.  After   *)
(* normalisation a column carries `den`, the ticks per second.  Dividing   *)
(* the column by 1e6 or 1e3 multiplies `den`; no precision is lost.        *)
(* Python's float64 arithmetic is modelled by exact rational arithmetic;   *)
(* int() is truncation toward zero.                                        *)
(***************************************************************************)
EXTENDS Integers, Sequences, FiniteSets, TLC

VARIABLES df, call, ret

vars == <<df, call, ret>>

(***************************************************************************)
(* Bounds of the model.                                                    *)
(***************************************************************************)
\* short logs have 1..MaxShortLen samples
MaxShortLen == 20
\* one long log, long enough for more than 100 step-response frames
LongLen == 140
\* the rows of the throttle-frequency histogram that are kept
FreqRows == 2
\* the largest weight one frame puts into one cell of the histogram
MaxSpecWeight == 3

\* the longest frame the zero padding is checked for
MaxFrameLen == 1100

\* the longest of the short series given to decimate_data
MaxDecimateLen == 50

\* the most logs loaded into the viewer
MaxLogs == 4

\* the longest plotted flight, in tenths of a second
MaxChartTenths == 120

(***************************************************************************)
(* Program constants.                                                      *)
(***************************************************************************)
\* seconds are written in tenths so that 0.3 and 0.5 stay integers
noise_framelen == 3
noise_superpos == 16
framelen == 10
resplen == 5
superpos == 16
threshold == 500
toolow_threshold == 20
min_high_frames == 10
sufficient_windows_min == 100
sufficient_for_analysis_min == 10
clip_seconds == 1
micro_limit == 1000000
milli_limit == 1000
default_nperseg == 1024

\* frames are padded up to a multiple of this many samples before the FFT
fft_pad == 1024

\* DATA_CONFIG['max_points'], the default of decimate_data
max_points == 4000
rc_units_min == 500
throttle_bins == 101

(***************************************************************************)
(* Arithmetic helpers.                                                     *)
(***************************************************************************)
Abs(x) == IF x < 0 THEN -x ELSE x

\* Python int(a / b) for b # 0: truncation toward zero
TruncDiv(a, b) ==
    IF (a >= 0) = (b > 0) THEN Abs(a) \div Abs(b) ELSE -(Abs(a) \div Abs(b))

SeqMax(s) == CHOOSE m \in {s[i] : i \in 1..Len(s)} : \A i \in 1..Len(s) : s[i] <= m

SeqMin(s) == CHOOSE m \in {s[i] : i \in 1..Len(s)} : \A i \in 1..Len(s) : m <= s[i]

RECURSIVE SeqSum(_)
SeqSum(s) == IF s = <<>> THEN 0 ELSE s[1] + SeqSum(Tail(s))

\* numpy's clip(lo, hi)
Clip(x, lo, hi) == IF x < lo THEN lo ELSE IF x > hi THEN hi ELSE x

(***************************************************************************)
(* The logs the model loads.  A profile is a recording: `unit`, the        *)
(* microseconds of the raw time column that one tick stands for, the first *)
(* raw stamp and the sample interval, both in ticks.  A blackbox log with  *)
(* microsecond stamps has unit 1; a recording whose stamps are whole       *)
(* seconds apart has unit 1000000 and spans hours, which is how a loaded   *)
(* column comes to exceed 1e3 or 1e6.                                      *)
(***************************************************************************)
Profiles ==
    { [unit |-> 1,       t0 |-> 500000,  step |-> 62500],  \* 16 Hz
      [unit |-> 1,       t0 |-> 500000,  step |-> 18750],  \* 53.3 Hz
      [unit |-> 1,       t0 |-> 500000,  step |-> 50000],  \* 20 Hz
      [unit |-> 1000000, t0 |-> 2000000, step |-> 15625],  \* a stamp every 15625 s
      [unit |-> 1000000, t0 |-> 1500,    step |-> 20] }    \* a stamp every 20 s

Shapes == {"uniform", "jitter", "repeat", "flat", "reverse"}

\* the per-frame input amplitudes of a log (max |input| of the i-th frame)
AmpPatterns == {"quiet", "active", "hot", "mixed", "sparse", "weak"}

\* load_bbl skips a flight whose data frame is empty
LogLens == (1 .. MaxShortLen) \cup {LongLen}

\* the raw time column of a flight, in ticks: evenly stamped, with one
\* sample dropped after the second, with the second stamp repeated, with
\* one stamp throughout, or running backwards
TimeColumn(p, shape, n) ==
    [i \in 1..n |->
        CASE shape = "uniform" -> p.t0 + (i - 1) * p.step
          [] shape = "jitter"  -> IF i <= 2 THEN p.t0 + (i - 1) * p.step
                                  ELSE p.t0 + i * p.step
          [] shape = "repeat"  -> IF i <= 2 THEN p.t0 + (i - 1) * p.step
                                  ELSE p.t0 + (i - 2) * p.step
          [] shape = "flat"    -> p.t0 + p.step
          [] shape = "reverse" -> p.t0 + (n - i) * p.step]

\* load_bbl: df['time'] = (df['time'] - df['time'].iloc[0]) / 1_000_000.0;
\* the loaded value is ticks/res
load_bbl(p, raw) ==
    [res |-> 1000000 \div p.unit, t |-> [i \in 1..Len(raw) |-> raw[i] - raw[1]]]

Idle == [status |-> "idle"]

(***************************************************************************)
(* Time normalisation.  Every entry point repeats the same lines on the    *)
(* loaded column; each copy is modelled on its own.  `t` is that column in *)
(* ticks and `res` its ticks per unit; the result carries the ticks        *)
(* per second.  The operators need a non-empty column (time.max() raises   *)
(* on an empty one).                                                       *)
(***************************************************************************)
\* value ticks/res > limit, without forming limit * res
Exceeds(ticks, res, limit) ==
    \/ ticks \div res > limit
    \/ ticks \div res = limit /\ ticks % res > 0

spectrogram_time(res, t) ==
    LET den == IF Exceeds(SeqMax(t), res, micro_limit) THEN res * 1000000
               ELSE IF Exceeds(SeqMax(t), res, milli_limit) THEN res * 1000
               ELSE res
    IN  [den |-> den, t |-> [i \in 1..Len(t) |-> t[i] - SeqMin(t)]]

noise_time(res, t) ==
    LET den == IF Exceeds(SeqMax(t), res, micro_limit) THEN res * 1000000
               ELSE IF Exceeds(SeqMax(t), res, milli_limit) THEN res * 1000
               ELSE res
    IN  [den |-> den, t |-> [i \in 1..Len(t) |-> t[i] - SeqMin(t)]]

\* the unit test made in the wrong order: a microsecond column is taken for
\* milliseconds
tracking_error_time_reordered(res, t) ==
    LET den == IF Exceeds(SeqMax(t), res, milli_limit) THEN res * 1000
               ELSE IF Exceeds(SeqMax(t), res, micro_limit) THEN res * 1000000
               ELSE res
    IN  [den |-> den, t |-> [i \in 1..Len(t) |-> t[i] - SeqMin(t)]]

tracking_error_time(res, t) ==
    LET den == IF Exceeds(SeqMax(t), res, micro_limit) THEN res * 1000000
               ELSE IF Exceeds(SeqMax(t), res, milli_limit) THEN res * 1000
               ELSE res
    IN  [den |-> den, t |-> [i \in 1..Len(t) |-> t[i] - SeqMin(t)]]

spectrum_time(res, t) ==
    LET den == IF Exceeds(SeqMax(t), res, micro_limit) THEN res * 1000000
               ELSE IF Exceeds(SeqMax(t), res, milli_limit) THEN res * 1000
               ELSE res
    IN  [den |-> den, t |-> [i \in 1..Len(t) |-> t[i] - SeqMin(t)]]

(***************************************************************************)
(* Throttle noise analyzer.                                                *)
(***************************************************************************)
\* what the settings file holds when process_gyro_data looks for it
SettingsStates == {"missing", "INFO", "VERBOSE"}

NoiseOut(status, exc, dt, winlen, shift, wins, frames) ==
    [status |-> status, exc |-> exc, dt |-> dt, winlen |-> winlen,
     shift |-> shift, wins |-> wins, frames |-> frames]

\* the stacking loop: frame i starts at i*shift and is kept while it ends
\* inside the series; end_idx grows with i, so the loop keeps a prefix
stacked_windows(tlen, winlen, shift, wins) ==
    Cardinality({i \in 0..(wins - 1) : i * shift + winlen <= tlen})

\* time is the normalised column [den, t]; the outcome is "ok" (a histogram
\* is returned), "none" (None is returned) or "raise"
process_gyro_data(time, settings) ==
    LET tlen == Len(time.t)
    IN  IF tlen < 2 THEN NoiseOut("raise", "IndexError", 0, 0, 0, 0, 0)
        ELSE
        LET dt == time.t[2] - time.t[1]
        IN  IF dt = 0 THEN NoiseOut("raise", "OverflowError", dt, 0, 0, 0, 0)
            ELSE
            LET winlen == TruncDiv(noise_framelen * time.den, 10 * dt)
                shift  == TruncDiv(winlen, noise_superpos)
            IN  IF shift = 0
                THEN NoiseOut("raise", "ZeroDivisionError", dt, winlen, shift, 0, 0)
                ELSE
                LET wins   == TruncDiv(tlen, shift) - noise_superpos
                    frames == stacked_windows(tlen, winlen, shift, wins)
                IN  IF settings = "missing"
                    THEN NoiseOut("raise", "UnboundLocalError", dt, winlen, shift, wins, 0)
                    ELSE IF wins <= 0
                    THEN NoiseOut("none", "", dt, winlen, shift, wins, 0)
                    ELSE IF frames = 0
                    THEN NoiseOut("none", "", dt, winlen, shift, wins, 0)
                    ELSE NoiseOut("ok", "", dt, winlen, shift, wins, frames)

(***************************************************************************)
(* Throttle column and throttle-frequency histogram of the noise analyzer. *)
(* Throttle is kept in tenths of a percent, so (raw - 1000) / 10 percent   *)
(* is raw - 1000 tenths.  The spectrum of a frame is not computed: the     *)
(* weight |spec.real| that a frame puts into a frequency row is given by   *)
(* the channel, and is zero for an all-zero signal.                        *)
(***************************************************************************)
\* the throttle column of the log: RC units, percent, or no such column
ThrottleColumns == {"rc", "percent", "absent"}

\* a gyro, debug or D-term column of the log is there or not
ChannelColumns == {"present", "absent"}

ThrottleRaw(column, i) ==
    CASE column = "rc"      -> IF i <= 2 THEN 990 ELSE IF i <= 60 THEN 1500 ELSE 2010
      [] column = "percent" -> IF i <= 2 THEN -5 ELSE IF i <= 60 THEN 40 ELSE 120

throttle_column(column, n) == [i \in 1..n |-> ThrottleRaw(column, i)]

\* the conversion with the clip left out
noise_throttle_unclipped(raw) ==
    IF SeqMax(raw) > rc_units_min
    THEN [i \in 1..Len(raw) |-> raw[i] - 1000]
    ELSE [i \in 1..Len(raw) |-> raw[i] * 10]

\* generate_individual_noise_figures: throttle in tenths of a percent
noise_throttle(raw) ==
    IF SeqMax(raw) > rc_units_min
    THEN [i \in 1..Len(raw) |-> Clip(raw[i] - 1000, 0, 1000)]
    ELSE [i \in 1..Len(raw) |-> Clip(raw[i] * 10, 0, 1000)]

\* plot_noise_from_df: the same lines again
plot_noise_throttle(raw) ==
    IF SeqMax(raw) > rc_units_min
    THEN [i \in 1..Len(raw) |-> Clip(raw[i] - 1000, 0, 1000)]
    ELSE [i \in 1..Len(raw) |-> Clip(raw[i] * 10, 0, 1000)]

\* np.mean(throttle_windows, axis=1), kept as the sum of each frame's
\* winlen samples: the mean is sum / (10 * winlen) percent
mean_throttle(throttle, winlen, shift, frames) ==
    [f \in 1..frames |->
        SeqSum(SubSeq(throttle, (f - 1) * shift + 1, (f - 1) * shift + winlen))]

\* the bin of np.histogram(x, 101, [0, 100]) that a mean throttle falls in;
\* the last bin is closed on the right
throttle_bin(sum, winlen) ==
    IF sum = 1000 * winlen THEN throttle_bins - 1
    ELSE (sum * throttle_bins) \div (1000 * winlen)

\* the weight frame f puts into frequency row r of the histogram
spec_weight(channel, f, r) ==
    IF channel = "absent" THEN 0 ELSE (f + 2 * r) % (MaxSpecWeight + 1)

NoHist == [made |-> FALSE]

\* every column divided by the number of all frames
create_2d_histogram_by_total(bins, channel) ==
    LET frames == Len(bins)
        count(b) == Cardinality({f \in 1..frames : bins[f] = b})
        cell(r, b) == SeqSum([w \in 1..MaxSpecWeight |->
                          w * Cardinality({f \in 1..frames :
                                  bins[f] = b /\ spec_weight(channel, f, r) = w})])
    IN  [made |-> TRUE,
         bins |-> bins,
         throt_hist |-> [b \in 0..(throttle_bins - 1) |-> count(b)],
         hist2d |-> [r \in 1..FreqRows |-> [b \in 0..(throttle_bins - 1) |-> cell(r, b)]],
         hist2d_norm |-> [r \in 1..FreqRows |-> [b \in 0..(throttle_bins - 1) |->
             [num |-> cell(r, b), den |-> frames]]]]

\* bins[f] is the throttle bin of frame f; a cell of hist2d adds up the
\* weights of the frames of its bin.  A cell of hist2d_norm is the
\* fraction num/den: hist2d_norm[:, i] /= throt_hist[i] where throt_hist[i] > 0
create_2d_histogram(bins, channel) ==
    LET frames == Len(bins)
        count(b) == Cardinality({f \in 1..frames : bins[f] = b})
        cell(r, b) == SeqSum([w \in 1..MaxSpecWeight |->
                          w * Cardinality({f \in 1..frames :
                                  bins[f] = b /\ spec_weight(channel, f, r) = w})])
    IN  [made |-> TRUE,
         bins |-> bins,
         throt_hist |-> [b \in 0..(throttle_bins - 1) |-> count(b)],
         hist2d |-> [r \in 1..FreqRows |-> [b \in 0..(throttle_bins - 1) |-> cell(r, b)]],
         hist2d_norm |-> [r \in 1..FreqRows |-> [b \in 0..(throttle_bins - 1) |->
             [num |-> cell(r, b), den |-> IF count(b) > 0 THEN count(b) ELSE 1]]]]

\* the histogram process_gyro_data builds from the frames it stacked
noise_histogram(out, throttle, channel) ==
    IF out.status # "ok" THEN NoHist
    ELSE LET sums == mean_throttle(throttle, out.winlen, out.shift, out.frames)
         IN  create_2d_histogram(
                 [f \in 1..out.frames |-> throttle_bin(sums[f], out.winlen)], channel)

\* generate_individual_noise_figures for one channel of one axis: normalise
\* the time, find and convert the throttle, take the channel or zeros, analyse
noise_figure(res, t, throttle_col, channel, settings) ==
    IF Len(t) = 0
    THEN [time |-> [den |-> res, t |-> t], throttle_col |-> throttle_col,
          channel |-> channel, throttle |-> <<>>,
          out |-> NoiseOut("raise", "ValueError", 0, 0, 0, 0, 0), hist |-> NoHist]
    ELSE IF throttle_col = "absent"
    THEN [time |-> noise_time(res, t), throttle_col |-> throttle_col,
          channel |-> channel, throttle |-> <<>>,
          out |-> NoiseOut("none", "", 0, 0, 0, 0, 0), hist |-> NoHist]
    ELSE
    LET time     == noise_time(res, t)
        throttle == noise_throttle(throttle_column(throttle_col, Len(t)))
        out      == process_gyro_data(time, settings)
    IN  [time |-> time, throttle_col |-> throttle_col, channel |-> channel,
         throttle |-> throttle, out |-> out,
         hist |-> noise_histogram(out, throttle, channel)]

\* plot_noise_from_df for one channel of one axis
plot_noise_from_df(res, t, throttle_col, channel, settings) ==
    IF Len(t) = 0
    THEN [time |-> [den |-> res, t |-> t], throttle_col |-> throttle_col,
          channel |-> channel, throttle |-> <<>>,
          out |-> NoiseOut("raise", "ValueError", 0, 0, 0, 0, 0), hist |-> NoHist]
    ELSE IF throttle_col = "absent"
    THEN [time |-> noise_time(res, t), throttle_col |-> throttle_col,
          channel |-> channel, throttle |-> <<>>,
          out |-> NoiseOut("none", "", 0, 0, 0, 0, 0), hist |-> NoHist]
    ELSE
    LET time     == noise_time(res, t)
        throttle == plot_noise_throttle(throttle_column(throttle_col, Len(t)))
        out      == process_gyro_data(time, settings)
    IN  [time |-> time, throttle_col |-> throttle_col, channel |-> channel,
         throttle |-> throttle, out |-> out,
         hist |-> noise_histogram(out, throttle, channel)]

(***************************************************************************)
(* Step response: windowing and amplitude masks.                           *)
(* The time column is used as it is in the log (update_step_response hands *)
(* df['time'] over unconverted), so its unit is taken for seconds.         *)
(* The samples themselves are not modelled: max_in, the largest |input| of *)
(* each windowed frame, is given by the log's amplitude pattern.           *)
(***************************************************************************)
Amp(pattern, i) ==
    CASE pattern = "quiet"  -> 20
      [] pattern = "active" -> IF i % 2 = 1 THEN 21 ELSE 500
      [] pattern = "hot"    -> 501
      [] pattern = "mixed"  -> <<20, 21, 500, 501>>[((i - 1) % 4) + 1]
      [] pattern = "sparse" -> IF i <= 3 THEN 100 ELSE 10
      [] pattern = "weak"   -> 50

\* max_in of stack_response / compute, one value per stacked frame
max_input(pattern, frames) == [i \in 1..frames |-> Amp(pattern, i)]

\* duration (tenths of a second) as a number of samples of the uniform grid
\* of n points spanning `span` ticks, res ticks to the second; span # 0
stepcalc(res, n, span, duration) ==
    TruncDiv(duration * res * (n - 1), 10 * span)

\* the lengths of the slices data[i*shift : i*shift+flen], i = 0..wins-1
winstacker(tlen, flen, shift, wins) ==
    [k \in 1..wins |->
        LET start == (k - 1) * shift
            stop  == IF start + flen < tlen THEN start + flen ELSE tlen
        IN  IF stop > start THEN stop - start ELSE 0]

\* the slices make a 2-D array only when they all have the same length
Stackable(lens) == \A i, j \in 1..Len(lens) : lens[i] = lens[j]

\* the two in-place assignments in the other order: every frame ends up low
low_high_mask_swapped(signal, thr) ==
    LET low1 == [i \in 1..Len(signal) |-> IF signal[i] > thr THEN 0 ELSE signal[i]]
        low2 == [i \in 1..Len(signal) |-> IF low1[i] <= thr THEN 1 ELSE low1[i]]
        high == [i \in 1..Len(signal) |-> 1 - low2[i]]
    IN  [low |-> low2,
         high |-> IF SeqSum(high) < min_high_frames
                  THEN [i \in 1..Len(signal) |-> 0] ELSE high]

\* low[low <= threshold] = 1; low[low > threshold] = 0; high = 1 - low,
\* and high is cleared when fewer than 10 frames are high
low_high_mask(signal, thr) ==
    LET low1 == [i \in 1..Len(signal) |-> IF signal[i] <= thr THEN 1 ELSE signal[i]]
        low2 == [i \in 1..Len(signal) |-> IF low1[i] > thr THEN 0 ELSE low1[i]]
        high == [i \in 1..Len(signal) |-> 1 - low2[i]]
    IN  [low |-> low2,
         high |-> IF SeqSum(high) < min_high_frames
                  THEN [i \in 1..Len(signal) |-> 0] ELSE high]

MaskProduct(a, b) == [i \in 1..Len(a) |-> a[i] * b[i]]

\* whether the deconvolved response of a frame lies inside the vertical
\* range [-1.5, 3.5] at time step k: the responses themselves are not
\* modelled, and a frame with a weak input is taken to leave the range at
\* every fourth step
resp_inside(max_in_f, k) == k % 4 # 0 \/ max_in_f > 100

\* colsum[k] is the sum of column k of hist2d (weights are 0 or 1); avr[k]
\* is "zero" (0.0), "nan" (0/0 from hist2d_sm /= np.max(hist2d_sm, 0)) or
\* "mode" (a weighted average of the bin positions)
weighted_mode_avr(max_in, weights, rlen) ==
    LET colsum(k) == Cardinality({f \in 1..Len(weights) :
                         weights[f] # 0 /\ resp_inside(max_in[f], k)})
        total == SeqSum([k \in 1..rlen |-> colsum(k)])
    IN  [colsum |-> [k \in 1..rlen |-> colsum(k)],
         avr |-> [k \in 1..rlen |->
                     IF total = 0 THEN "zero"
                     ELSE IF colsum(k) = 0 THEN "nan" ELSE "mode"]]

TraceOut(status, exc, tlen, flen, rlen, shift, wins, max_in, low, high, toolow, w) ==
    [status |-> status, exc |-> exc, tlen |-> tlen, flen |-> flen, rlen |-> rlen,
     shift |-> shift, wins |-> wins, frames |-> Len(max_in), max_in |-> max_in,
     low_mask |-> low, high_mask |-> high, toolow_mask |-> toolow,
     resp_low_weights |-> w,
     resp_low |-> IF status = "ok" THEN weighted_mode_avr(max_in, w, rlen)
                  ELSE [colsum |-> <<>>, avr |-> <<>>]]

TraceRaise(exc, tlen, flen, rlen, shift, wins) ==
    TraceOut("raise", exc, tlen, flen, rlen, shift, wins,
             <<>>, <<>>, <<>>, <<>>, <<>>)

\* the outcome of constructing StepTrace(data) on a log
StepTrace(res, t, pattern) ==
    LET n == Len(t)
    IN  IF n = 0 THEN TraceRaise("ValueError", n, 0, 0, 0, 0)
        ELSE IF n = 1 THEN TraceRaise("IndexError", n, 0, 0, 0, 0)
        ELSE IF t[n] - t[1] = 0 THEN TraceRaise("OverflowError", n, 0, 0, 0, 0)
        ELSE
        LET span  == t[n] - t[1]
            flen  == stepcalc(res, n, span, framelen)
            rlen  == stepcalc(res, n, span, resplen)
            shift == TruncDiv(flen, superpos)
        IN  IF shift = 0 THEN TraceRaise("ZeroDivisionError", n, flen, rlen, shift, 0)
            ELSE
            LET wins == TruncDiv(n, shift) - superpos
                lens == winstacker(n, flen, shift, wins)
            IN  IF wins <= 0
                THEN TraceRaise(IF flen < 0 THEN "IndexError" ELSE "ValueError",
                                n, flen, rlen, shift, wins)
                ELSE IF ~Stackable(lens) \/ lens[1] # flen
                THEN TraceRaise("ValueError", n, flen, rlen, shift, wins)
                ELSE
                LET max_in == max_input(pattern, wins)
                    low    == low_high_mask(max_in, threshold).low
                    high   == low_high_mask(max_in, threshold).high
                    toolow == low_high_mask(max_in, toolow_threshold).high
                IN  TraceOut("ok", "", n, flen, rlen, shift, wins, max_in,
                             low, high, toolow, MaskProduct(low, toolow))

\* the outcome of StepResponseCalculator(time, ...).compute()
StepResponseCalculator(res, t, pattern) ==
    LET n == Len(t)
    IN  IF n < 2 THEN TraceRaise("ValueError", n, 0, 0, 0, 0)
        ELSE IF t[n] - t[1] = 0 THEN TraceRaise("OverflowError", n, 0, 0, 0, 0)
        ELSE
        LET span  == t[n] - t[1]
            flen  == stepcalc(res, n, span, framelen)
            rlen  == stepcalc(res, n, span, resplen)
            shift == TruncDiv(flen, superpos)
        IN  IF shift = 0 THEN TraceRaise("ZeroDivisionError", n, flen, rlen, shift, 0)
            ELSE
            LET wins == TruncDiv(n, shift) - superpos
                lens == winstacker(n, flen, shift, wins)
            IN  IF wins <= 0
                THEN TraceRaise(IF flen < 0 THEN "IndexError" ELSE "ValueError",
                                n, flen, rlen, shift, wins)
                ELSE IF ~Stackable(lens) \/ lens[1] # flen
                THEN TraceRaise("ValueError", n, flen, rlen, shift, wins)
                ELSE
                LET max_in == max_input(pattern, wins)
                    toolow == [i \in 1..wins |-> IF max_in[i] <= toolow_threshold THEN 1 ELSE 0]
                    low    == [i \in 1..wins |-> IF max_in[i] <= threshold THEN 1 ELSE 0]
                    high   == [i \in 1..wins |-> IF max_in[i] > threshold THEN 1 ELSE 0]
                IN  TraceOut("ok", "", n, flen, rlen, shift, wins, max_in,
                             low, high, toolow, MaskProduct(low, toolow))

(***************************************************************************)
(* Step response widget: the window statistics and the annotation.         *)
(***************************************************************************)
get_detailed_window_stats(trace) ==
    LET useful == SeqSum(MaskProduct(trace.low_mask, trace.toolow_mask))
    IN  [total_windows |-> Len(trace.max_in),
         useful_windows |-> useful,
         low_amplitude_windows |-> Len(trace.max_in) - SeqSum(trace.toolow_mask),
         high_amplitude_windows |-> Len(trace.max_in) - SeqSum(trace.low_mask),
         sufficient_for_analysis |-> (useful >= sufficient_for_analysis_min)]

calculate_sample_stats(trace) ==
    LET shift_samples == TruncDiv(trace.flen, superpos)
        useful == SeqSum(MaskProduct(trace.low_mask, trace.toolow_mask))
    IN  [flen_samples |-> trace.flen,
         rlen_samples |-> trace.rlen,
         total_windows_created |->
             IF shift_samples > 0
             THEN TruncDiv(trace.tlen, shift_samples) - superpos ELSE 0,
         useful_windows |-> useful,
         sufficient_windows |-> (useful >= sufficient_windows_min),
         total_samples_processed |-> IF useful > 0 THEN useful * trace.flen ELSE 0,
         shift_samples |-> shift_samples]

\* update_step_response for one axis: nothing is drawn for an empty frame;
\* otherwise the trace is built and the curve is annotated
update_step_response(res, t, pattern) ==
    IF Len(t) = 0
    THEN [status |-> "none", exc |-> "", trace |-> TraceRaise("", 0, 0, 0, 0, 0),
          sample_info |-> ""]
    ELSE
    LET trace == StepTrace(res, t, pattern)
    IN  IF trace.status = "raise"
        THEN [status |-> "raise", exc |-> trace.exc, trace |-> trace, sample_info |-> ""]
        ELSE [status |-> "ok", exc |-> "", trace |-> trace,
              sample_info |-> IF calculate_sample_stats(trace).sufficient_windows
                              THEN "Useful windows" ELSE "Insufficient for reliable analysis"]

(***************************************************************************)
(* Spectrogram.                                                            *)
(***************************************************************************)
RECURSIVE Pow2(_)
Pow2(k) == IF k = 0 THEN 1 ELSE 2 * Pow2(k - 1)

\* the window-size slider of the spectrogram widget: nperseg = 2^k
WindowSliderValues == 6..11

\* the arguments of calculate_spectrogram: its defaults (None, None), or what
\* the spectrogram widget passes
SpectrogramArgs ==
    {[given |-> FALSE, nperseg |-> 0, noverlap |-> 0]}
    \cup {[given |-> TRUE, nperseg |-> Pow2(k), noverlap |-> (Pow2(k) * 3) \div 4] :
            k \in WindowSliderValues}

SpecOut(status, exc, time, n, span, nperseg, noverlap, t2) ==
    [status |-> status, exc |-> exc, time |-> time, n |-> n, span |-> span,
     nperseg |-> nperseg, noverlap |-> noverlap, t2 |-> t2]

\* scipy.signal.spectrogram's segment centres for n samples, in half samples:
\* arange(nperseg/2, n - nperseg/2 + 1, nperseg - noverlap); the time of a
\* centre is its sample count times dt, counted from the first sample given
segment_times(n, nperseg, noverlap) ==
    [k \in 1..(((n - nperseg) \div (nperseg - noverlap)) + 1) |->
        nperseg + 2 * (k - 1) * (nperseg - noverlap)]

\* the mask with only its first half: the last second is kept
clip_mask_one_sided(time) ==
    LET keep(x) == x > clip_seconds * time.den
    IN  SelectSeq(time.t, keep)

\* time[mask] for mask = (time > clip_seconds) & (time < time.max() - clip_seconds)
clip_mask(time) ==
    LET tmax == SeqMax(time.t)
        keep(x) == x > clip_seconds * time.den /\ x < tmax - clip_seconds * time.den
    IN  SelectSeq(time.t, keep)

\* t2 holds the returned time axis in half samples of dt = span / (n - 1) ticks
calculate_spectrogram(res, t, args) ==
    IF Len(t) = 0
    THEN SpecOut("raise", "ValueError", [den |-> res, t |-> t], 0, 0, 0, 0, <<>>)
    ELSE
    LET time == spectrogram_time(res, t)
        clipped == clip_mask(time)
        n == Len(clipped)
    IN  IF n = 0 THEN SpecOut("none", "", time, 0, 0, 0, 0, <<>>)
        ELSE IF n < 2 THEN SpecOut("none", "", time, n, 0, 0, 0, <<>>)
        ELSE
        LET span == clipped[n] - clipped[1]
        IN  IF span <= 0 THEN SpecOut("none", "", time, n, span, 0, 0, <<>>)
            ELSE
            LET asked    == IF args.given THEN args.nperseg
                            ELSE IF default_nperseg < n THEN default_nperseg ELSE n
                noverlap == IF args.given THEN args.noverlap ELSE asked \div 2
                nperseg  == IF asked > n THEN n ELSE asked
            IN  IF noverlap >= nperseg
                THEN SpecOut("raise", "ValueError", time, n, span, nperseg, noverlap, <<>>)
                ELSE SpecOut("ok", "", time, n, span, nperseg, noverlap,
                             segment_times(n, nperseg, noverlap))

(***************************************************************************)
(* Welch spectrum (update_spectrum) and tracking error.                    *)
(***************************************************************************)
window_sizes == <<256, 512, 1024, 2048, 4096, 8192, 16384, 32768>>

PsdOut(status, exc, time, fs_zero, nperseg, noverlap) ==
    [status |-> status, exc |-> exc, time |-> time, fs_zero |-> fs_zero,
     nperseg |-> nperseg, noverlap |-> noverlap]

\* the set of outcomes of update_spectrum for one channel.  With fs = 0.0
\* handed to scipy.signal.welch the library either raises or returns a
\* spectrum on a degenerate frequency axis, depending on its version.
update_spectrum(res, t, window_size) ==
    IF Len(t) = 0
    THEN {PsdOut("none", "", [den |-> res, t |-> t], FALSE, 0, 0)}
    ELSE
    LET time == spectrum_time(res, t)
        n == Len(t)
    IN  IF n < 2 THEN {PsdOut("none", "", time, TRUE, 0, 0)}
        ELSE
        LET fs_zero  == ~(time.t[n] - time.t[1] > 0)
            nperseg  == IF window_size > n THEN n ELSE window_size
            noverlap == window_size \div 2
        IN  IF noverlap >= nperseg
            THEN {PsdOut("raise", "ValueError", time, fs_zero, nperseg, noverlap)}
            ELSE IF fs_zero
            THEN {PsdOut("raise", "ZeroDivisionError", time, fs_zero, nperseg, noverlap),
                  PsdOut("ok", "", time, fs_zero, nperseg, noverlap)}
            ELSE {PsdOut("ok", "", time, fs_zero, nperseg, noverlap)}

calculate_tracking_error(res, t) ==
    IF Len(t) = 0
    THEN [status |-> "raise", exc |-> "ValueError", time |-> [den |-> res, t |-> t]]
    ELSE [status |-> "ok", exc |-> "", time |-> tracking_error_time(res, t)]

(***************************************************************************)
(* Zero padding of the stacked frames before the FFT.  Only the length of  *)
(* a frame matters: np.pad appends `pad` zeros to every row.               *)
(***************************************************************************)
PadOut(len, pad) == [len |-> len, pad |-> pad, padded |-> len + pad]

\* spectrum(time, traces) of the noise analyzer, len = len(traces[0])
spectrum(len) == PadOut(len, fft_pad - (len % fft_pad))

\* StepTrace.wiener_deconvolution, len = len(input[0])
wiener_deconvolution(len) == PadOut(len, fft_pad - (len % fft_pad))

\* StepResponseCalculator.wiener_deconvolution, len = len(input[0])
calculator_wiener_deconvolution(len) == PadOut(len, fft_pad - (len % fft_pad))

(***************************************************************************)
(* Decimation of a plotted series.  A series is given by its length and    *)
(* the shape of its time column; the feature column is taken to hold a     *)
(* different value in every row.  The returned arrays are given by the     *)
(* input rows (1-based) their elements were copied from.                   *)
(***************************************************************************)
\* evenly spaced stamps, or the last stamp equal to the one before it
SeriesShapes == {"uniform", "tail"}

\* time_data[i - 1], in sample intervals
TimeAt(data, i) ==
    IF data.shape = "tail" /\ i = data.n /\ i > 1 THEN i - 2 ELSE i - 1

\* the rows of a[::factor] for an array of n rows
Strided(n, factor) ==
    [k \in 1..(((n - 1) \div factor) + 1) |-> 1 + (k - 1) * factor]

decimate_data(data, max_pts) ==
    IF data.n <= max_pts
    THEN [time |-> [i \in 1..data.n |-> i], value |-> [i \in 1..data.n |-> i]]
    ELSE
    LET factor          == data.n \div max_pts
        time_decimated  == Strided(data.n, factor)
        value_decimated == Strided(data.n, factor)
        last            == time_decimated[Len(time_decimated)]
    IN  IF TimeAt(data, last) # TimeAt(data, data.n)
        THEN [time  |-> Append(time_decimated, data.n),
              value |-> Append(value_decimated, data.n)]
        ELSE [time |-> time_decimated, value |-> value_decimated]

(***************************************************************************)
(* The viewer: tabs, the list of loaded logs, and the export tab.          *)
(* A handler works on a record [s, x, o]: s is the state of the viewer and *)
(* of the feature widget (tab_widget.currentIndex(), previous_tab_index,   *)
(* the list's selection mode and selected items, selected_logs, the hidden *)
(* combo box, current_log, update_timer), x is the state of the export     *)
(* widget (its own previous_tab_index, and the tab the user was on when    *)
(* the export tab was entered), and o is what the handling of one user     *)
(* event did.  Logs are numbered by their row in the list.  A Qt signal    *)
(* runs its slots at once, inside the call that emits it, each slot once   *)
(* per connection.                                                         *)
(***************************************************************************)
TabCount == 8

\* the tab indices of tab_widget
FrequencyDomainTab == 1
ExportTab == 7

Last(s) == s[Len(s)]

Front(s) == SubSeq(s, 1, Len(s) - 1)

InSeq(x, s) == \E i \in 1..Len(s) : s[i] = x

\* what one event has done so far: nothing
NoOutcome ==
    [plot_called |-> FALSE, plotted |-> <<>>, exported |-> -1, status |-> "",
     asked |-> 0]

\* update_timer.start(300), or nothing when the timer is already active
notify_parent_update(u) == [u EXCEPT !.s.timer = TRUE]

RECURSIVE on_logs_selection_changed(_, _)
RECURSIVE on_log_selected(_, _)

\* itemSelectionChanged with one connection only
itemSelectionChanged_once(u, held) ==
    on_logs_selection_changed(u, held)

\* itemSelectionChanged: on_logs_selection_changed is connected in setup_ui
\* and again in setup_connections, so it runs twice
itemSelectionChanged(u, held) ==
    on_logs_selection_changed(on_logs_selection_changed(u, held), held)

\* the list widget takes a new selection and emits when it changed
setSelected(u, items, held) ==
    IF items = u.s.sel THEN u
    ELSE itemSelectionChanged([u EXCEPT !.s.sel = items], held)

\* logs_combo.currentIndexChanged: on_log_selected is connected twice too
setCurrentIndex(u, index, held) ==
    IF index = u.s.combo THEN u
    ELSE on_log_selected(on_log_selected([u EXCEPT !.s.combo = index], held), held)

\* logs_list.clearSelection(); last_selected.setSelected(True)
keep_last_selected(u, last, held) ==
    setSelected(setSelected(u, <<>>, held), <<last>>, held)

\* held: a Ctrl, Cmd or Shift key is down (QApplication.keyboardModifiers)
on_logs_selection_changed(u, held) ==
    LET selected_items == u.s.sel
        current_tab    == u.s.tab
    IN  IF selected_items = <<>> THEN u
        ELSE
        LET single  == \/ current_tab \in {0, 3}
                       \/ current_tab \notin {0, 1, 3, 5} /\ ~held
            force1  == single /\ Len(selected_items) > 1
            force2  == current_tab \in {1, 5} /\ Len(selected_items) > 2
            forced  == IF force1
                       THEN keep_last_selected(u, Last(selected_items), held)
                       ELSE IF force2
                       THEN setSelected(u, Front(selected_items), held)
                       ELSE u
            items   == IF force1 THEN <<Last(selected_items)>>
                       ELSE IF force2 THEN Front(selected_items)
                       ELSE selected_items
            updated == [forced EXCEPT !.s.selected_logs = items,
                                      !.s.current_log = items[1]]
            synced  == IF Len(items) = 1
                       THEN setCurrentIndex(updated, items[1], held)
                       ELSE updated
        IN  IF current_tab # 0 THEN notify_parent_update(synced) ELSE synced

on_log_selected(u, held) ==
    LET log_name == u.s.combo
        picked   == setSelected(setSelected(u, <<>>, held), <<log_name>>, held)
        updated  == [picked EXCEPT !.s.current_log = log_name,
                                   !.s.selected_logs = <<log_name>>]
    IN  IF u.s.tab # 0 THEN notify_parent_update(updated) ELSE updated

\* the logs that a plot request draws
plot_selected(u) ==
    LET logs     == u.s.selected_logs
        tab      == u.s.tab
        called   == [u EXCEPT !.o.plot_called = TRUE]
        current  == IF Len(logs) = 1 THEN logs[1] ELSE u.s.current_log
        one      == [called EXCEPT !.s.current_log = current]
    IN  IF logs # <<>> /\ tab = FrequencyDomainTab
        THEN [one EXCEPT !.o.plotted = logs]
        ELSE IF Len(logs) > 1 /\ tab = 2 THEN [called EXCEPT !.o.plotted = logs]
        ELSE IF Len(logs) > 1 /\ tab = 0 THEN called
        ELSE IF tab \in {0, 2, 3, 4, 5} THEN [one EXCEPT !.o.plotted = <<current>>]
        ELSE one

\* _do_update, run by the single-shot timer
do_update(u) ==
    IF u.s.tab = 0 THEN plot_selected(u) ELSE u

select_first_log_if_multiple(u) ==
    IF Len(u.s.selected_logs) > 1
    THEN LET first_log == u.s.selected_logs[1]
             kept      == [u EXCEPT !.s.selected_logs = <<first_log>>]
             picked    == setSelected(setSelected(kept, <<>>, FALSE),
                                      <<first_log>>, FALSE)
         IN  [picked EXCEPT !.s.current_log = first_log]
    ELSE u

\* for i in range(logs_list.count()): if item.text() in selected_logs:
\* item.setSelected(True); selected_logs is read again at every row
RECURSIVE select_rows(_, _)
select_rows(u, row) ==
    IF row > u.s.logs THEN u
    ELSE IF InSeq(row, u.s.selected_logs) /\ ~InSeq(row, u.s.sel)
         THEN select_rows(setSelected(u, Append(u.s.sel, row), FALSE), row + 1)
         ELSE select_rows(u, row + 1)

\* ExportWidget.export_plots
export_plots(u) ==
    IF u.x.previous_tab_index \in 0..4
    THEN [u EXCEPT !.o.exported = u.x.previous_tab_index]
    ELSE [u EXCEPT !.o.status = "Invalid tab index for export"]

on_tab_changed(u, index) ==
    LET prev_tab == u.s.previous_tab_index
        entered  == [u EXCEPT !.s.tab = index, !.s.previous_tab_index = index,
                              !.x.entered_from = IF index = ExportTab THEN u.s.tab ELSE @]
    IN  CASE index = ExportTab ->
               IF 0 <= prev_tab /\ prev_tab <= 5
               THEN export_plots([entered EXCEPT !.x.previous_tab_index = prev_tab])
               ELSE [entered EXCEPT !.o.status = "Please select a valid tab to export from."]
          [] index = 0 ->
               plot_selected(select_first_log_if_multiple(
                   [entered EXCEPT !.s.mode = "single"]))
          [] index = FrequencyDomainTab ->
               IF Len(entered.s.selected_logs) > 2
               THEN select_rows(
                        setSelected([entered EXCEPT !.s.selected_logs = SubSeq(@, 1, 2)],
                                    <<>>, FALSE), 1)
               ELSE entered
          [] index = 2 -> [entered EXCEPT !.s.mode = "extended"]
          [] index \in {3, 4} ->
               select_first_log_if_multiple([entered EXCEPT !.s.mode = "single"])
          [] index = 5 -> entered
          [] index = 6 -> [entered EXCEPT !.s.mode = "extended"]

\* ExportWidget.return_to_previous_tab: tab_widget.setCurrentIndex emits
\* currentChanged when the index changes
return_to_previous_tab(u) ==
    IF u.x.previous_tab_index = u.s.tab THEN u
    ELSE on_tab_changed(u, u.x.previous_tab_index)

(***************************************************************************)
(* The state machine.  df is the loaded log; call names the estimator that *)
(* ran last and ret is what it returned.                                   *)
(***************************************************************************)
Logs ==
    {[res |-> load_bbl(p, TimeColumn(p, shape, n)).res,
      t   |-> load_bbl(p, TimeColumn(p, shape, n)).t,
      amp |-> a] :
        p \in Profiles, shape \in Shapes, n \in LogLens, a \in AmpPatterns}

Init ==
    /\ df \in Logs
    /\ call = "none"
    /\ ret = Idle

\* the noise tab analyses one channel of the log
RunNoise ==
    /\ call = "none"
    /\ \E settings \in SettingsStates, throttle_col \in ThrottleColumns,
          channel \in ChannelColumns :
          ret' = noise_figure(df.res, df.t, throttle_col, channel, settings)
    /\ call' = "noise"
    /\ UNCHANGED df

\* the combined noise plot, one channel of one axis
RunPlotNoise ==
    /\ call = "none"
    /\ \E settings \in SettingsStates, throttle_col \in ThrottleColumns,
          channel \in ChannelColumns :
          ret' = plot_noise_from_df(df.res, df.t, throttle_col, channel, settings)
    /\ call' = "plot_noise"
    /\ UNCHANGED df

\* the step response tab draws one axis
RunStepResponse ==
    /\ call = "none"
    /\ ret' = update_step_response(df.res, df.t, df.amp)
    /\ call' = "step_response"
    /\ UNCHANGED df

\* the window statistics of the trace that was just drawn
RunDetailedStats ==
    /\ call = "step_response"
    /\ ret.status = "ok"
    /\ ret' = [status |-> "ok", exc |-> "", trace |-> ret.trace,
               shown |-> ret.sample_info,
               stats |-> get_detailed_window_stats(ret.trace)]
    /\ call' = "detailed_stats"
    /\ UNCHANGED df

RunStepCalculator ==
    /\ call = "none"
    /\ ret' = StepResponseCalculator(df.res, df.t, df.amp)
    /\ call' = "step_calculator"
    /\ UNCHANGED df

RunSpectrogram ==
    /\ call = "none"
    /\ \E args \in SpectrogramArgs :
          ret' = calculate_spectrogram(df.res, df.t, args)
    /\ call' = "spectrogram"
    /\ UNCHANGED df

RunSpectrum ==
    /\ call = "none"
    /\ \E i \in 1..Len(window_sizes) :
          ret' \in update_spectrum(df.res, df.t, window_sizes[i])
    /\ call' = "spectrum"
    /\ UNCHANGED df

RunTrackingError ==
    /\ call = "none"
    /\ ret' = calculate_tracking_error(df.res, df.t)
    /\ call' = "tracking_error"
    /\ UNCHANGED df

Next ==
    \/ RunNoise
    \/ RunPlotNoise
    \/ RunStepResponse
    \/ RunDetailedStats
    \/ RunStepCalculator
    \/ RunSpectrogram
    \/ RunSpectrum
    \/ RunTrackingError

Spec == Init /\ [][Next]_vars

(***************************************************************************)
(* The padding on its own: df is a stack of frames of one length, as the   *)
(* windowers hand it to the FFT helpers.                                   *)
(***************************************************************************)
FrameStacks == {[frame_len |-> len] : len \in 1..MaxFrameLen}

PadInit ==
    /\ df \in FrameStacks
    /\ call = "none"
    /\ ret = Idle

\* process_gyro_data transforms its stacked frames
PadSpectrum ==
    /\ call = "none"
    /\ ret' = spectrum(df.frame_len)
    /\ call' = "spectrum_pad"
    /\ UNCHANGED df

\* StepTrace.stack_response deconvolves its stacked frames
PadTrace ==
    /\ call = "none"
    /\ ret' = wiener_deconvolution(df.frame_len)
    /\ call' = "trace_pad"
    /\ UNCHANGED df

\* StepResponseCalculator.compute deconvolves its stacked frames
PadCalculator ==
    /\ call = "none"
    /\ ret' = calculator_wiener_deconvolution(df.frame_len)
    /\ call' = "calculator_pad"
    /\ UNCHANGED df

PadNext ==
    \/ PadSpectrum
    \/ PadTrace
    \/ PadCalculator

PadSpec == PadInit /\ [][PadNext]_vars

(***************************************************************************)
(* The decimation on its own: df is the series plot_features is about to   *)
(* draw.                                                                   *)
(***************************************************************************)
SeriesLens ==
    (1..MaxDecimateLen)
    \cup ((max_points - 1)..(max_points + 2))
    \cup ((2 * max_points - 1)..(2 * max_points + 2))

PlottedSeries == {[n |-> n, shape |-> sh] : n \in SeriesLens, sh \in SeriesShapes}

DecimateInit ==
    /\ df \in PlottedSeries
    /\ call = "none"
    /\ ret = Idle

\* plot_features reduces a feature of the log before drawing it
RunDecimate ==
    /\ call = "none"
    /\ ret' = decimate_data(df, max_points)
    /\ call' = "decimate"
    /\ UNCHANGED df

DecimateNext == RunDecimate

DecimateSpec == DecimateInit /\ [][DecimateNext]_vars

(***************************************************************************)
(* The list of loaded logs on its own: df is the state of the viewer and   *)
(* of the feature widget after some logs were loaded, call the last user   *)
(* event and ret what its handling did.  The export widget is not          *)
(* followed here: its button only changes the tab, as ChangeTab does.      *)
(***************************************************************************)
\* load_bbl selects the first log it loads; the program starts on tab 0
\* with the list in extended selection mode
Viewers ==
    {[logs |-> n, tab |-> 0, previous_tab_index |-> 0, mode |-> "extended",
      sel |-> <<1>>, selected_logs |-> <<1>>, combo |-> 1, current_log |-> 1,
      timer |-> FALSE] : n \in 1..MaxLogs}

\* ExportWidget.__init__: previous_tab_index = 0
NewExportWidget == [previous_tab_index |-> 0, entered_from |-> 0]

\* rows lo..hi of the list, in row order
Rows(lo, hi) == [i \in 1..(hi - lo + 1) |-> lo + i - 1]

\* s without x
Without(s, x) == SelectSeq(s, LAMBDA y : y # x)

UiInit ==
    /\ df \in Viewers
    /\ call = "none"
    /\ ret = Idle

\* the start of the handling of a user event
Event(asked) ==
    [s |-> df, x |-> NewExportWidget, o |-> [NoOutcome EXCEPT !.asked = asked]]

\* the user clicks a tab
ChangeTab ==
    /\ \E index \in 0..(TabCount - 1) :
          /\ index # df.tab
          /\ LET u == on_tab_changed(Event(0), index)
             IN  df' = u.s /\ ret' = u.o
    /\ call' = "tab_changed"

\* a plain click selects one log
ClickLog ==
    /\ \E row \in 1..df.logs :
          /\ df.sel # <<row>>
          /\ LET u == setSelected(Event(1), <<row>>, FALSE)
             IN  df' = u.s /\ ret' = u.o
    /\ call' = "selection"

\* Ctrl-click adds a log to the selection or takes it out
CtrlClickLog ==
    /\ df.mode = "extended"
    /\ \E row \in 1..df.logs :
          LET items == IF InSeq(row, df.sel) THEN Without(df.sel, row)
                       ELSE Append(df.sel, row)
              u     == setSelected(Event(Len(items)), items, TRUE)
          IN  df' = u.s /\ ret' = u.o
    /\ call' = "selection"

\* Shift-click or Ctrl-A selects a range of rows at once
SelectRange ==
    /\ df.mode = "extended"
    /\ \E lo \in 1..df.logs, hi \in 1..df.logs :
          /\ lo < hi
          /\ df.sel # Rows(lo, hi)
          /\ LET u == setSelected(Event(hi - lo + 1), Rows(lo, hi), TRUE)
             IN  df' = u.s /\ ret' = u.o
    /\ call' = "selection"

\* the Plot button
PlotButton ==
    /\ LET u == plot_selected(Event(0))
       IN  df' = u.s /\ ret' = u.o
    /\ call' = "plot_selected"

\* the 300 ms single-shot timer fires
TimerFires ==
    /\ df.timer
    /\ LET u == do_update([Event(0) EXCEPT !.s.timer = FALSE])
       IN  df' = u.s /\ ret' = u.o
    /\ call' = "timer"

UiNext ==
    \/ ChangeTab
    \/ ClickLog
    \/ CtrlClickLog
    \/ SelectRange
    \/ PlotButton
    \/ TimerFires

UiSpec == UiInit /\ [][UiNext]_vars

(***************************************************************************)
(* The tabs and the export widget: df holds the viewer (s) and the export  *)
(* widget (x).                                                             *)
(***************************************************************************)
ExportInit ==
    /\ df \in {[s |-> v, x |-> NewExportWidget] : v \in Viewers}
    /\ call = "none"
    /\ ret = Idle

ExportEvent == [s |-> df.s, x |-> df.x, o |-> NoOutcome]

\* the user clicks a tab
ExportChangeTab ==
    /\ \E index \in 0..(TabCount - 1) :
          /\ index # df.s.tab
          /\ LET u == on_tab_changed(ExportEvent, index)
             IN  df' = [s |-> u.s, x |-> u.x] /\ ret' = u.o
    /\ call' = "tab_changed"

\* the 'Return to Previous Tab' button of the export tab
ReturnToPreviousTab ==
    /\ df.s.tab = ExportTab
    /\ LET u == return_to_previous_tab(ExportEvent)
       IN  df' = [s |-> u.s, x |-> u.x] /\ ret' = u.o
    /\ call' = "return_to_previous_tab"

ExportNext ==
    \/ ExportChangeTab
    \/ ReturnToPreviousTab

ExportSpec == ExportInit /\ [][ExportNext]_vars

(***************************************************************************)
(* The x axis of the time-domain charts.  Times are in milliseconds; the   *)
(* plotted time column starts at 0 (plot_features subtracts its minimum)   *)
(* and, for flights of up to 1000 s, is the loaded column as it is.  df    *)
(* holds ChartManager.full_time_range (<<>> for None), the range of the x  *)
(* axis (<<>> before the first plot) and the two sliders.                  *)
(***************************************************************************)
\* the positions of the zoom slider that are followed: 1.0x and 10.0x
ZoomSteps == {0, 800}

\* the positions of the scroll slider that are followed
ScrollSteps == {0, 500, 1000}

\* the largest plotted time values, in milliseconds
ChartTimes == {100 * tenths : tenths \in 0..MaxChartTenths}

\* ((int(time_max) + 4) // 5) * 5, in seconds
rounded_max(time_max) == ((time_max \div 1000 + 4) \div 5) * 5

\* update_chart: setRange(time_min, time_max), then setRange(time_min, rounded_max)
update_chart(chart, time_min, time_max) ==
    [chart EXCEPT !.axis = <<time_min, 1000 * rounded_max(time_max)>>]

\* ChartManager.reset_zoom
chart_reset_zoom(chart) ==
    IF chart.full_time_range = <<>> \/ chart.axis = <<>> THEN chart
    ELSE [chart EXCEPT !.axis = <<chart.full_time_range[1],
                                  1000 * rounded_max(chart.full_time_range[2])>>]

\* ChartManager.update_zoom; scroll is the position of the scroll slider
update_zoom(chart, zoom_factor, scroll) ==
    IF chart.full_time_range = <<>> \/ chart.axis = <<>> THEN chart
    ELSE LET time_min        == chart.full_time_range[1]
             time_max        == chart.full_time_range[2]
             time_range      == time_max - time_min
             visible_range   == time_range \div zoom_factor
             available_range == time_range - visible_range
             new_min         == time_min + (available_range * scroll) \div 1000
             new_max         == new_min + visible_range
         IN  [chart EXCEPT !.axis = <<new_min, new_max>>]

\* 1.0 + (value / 800.0) * 9.0, for the positions in ZoomSteps
zoom_factor_of(value) == 1 + (value * 9) \div 800

\* zoom_slider.valueChanged
zoom_slider_changed(chart, value) ==
    LET zoom_factor == zoom_factor_of(value)
        zoomed      == update_zoom([chart EXCEPT !.zoom = value], zoom_factor, chart.scroll)
    IN  IF zoom_factor = 1 THEN chart_reset_zoom(zoomed) ELSE zoomed

\* scroll_slider.valueChanged
scroll_slider_changed(chart, value) ==
    zoom_slider_changed([chart EXCEPT !.scroll = value], chart.zoom)

\* FL1GHTViewer.reset_zoom: a slider emits valueChanged when its value changes
viewer_reset_zoom(chart) ==
    LET reset    == chart_reset_zoom(chart)
        unzoomed == IF reset.zoom # 0 THEN zoom_slider_changed(reset, 0) ELSE reset
    IN  IF unzoomed.scroll # 500 THEN scroll_slider_changed(unzoomed, 500) ELSE unzoomed

\* plot_features: full_time_range and one update_chart per chart view
plot_features(chart, time_max) ==
    update_chart([chart EXCEPT !.full_time_range = <<0, time_max>>], 0, time_max)

ChartInit ==
    /\ df = [full_time_range |-> <<>>, axis |-> <<>>, zoom |-> 0, scroll |-> 500]
    /\ call = "none"
    /\ ret = Idle

\* a log is plotted on the Time Domain tab
PlotFeatures ==
    /\ \E time_max \in ChartTimes : df' = plot_features(df, time_max)
    /\ call' = "plot_features"
    /\ ret' = Idle

\* the Reset Zoom button
ResetZoom ==
    /\ df' = viewer_reset_zoom(df)
    /\ call' = "reset_zoom"
    /\ ret' = Idle

\* the user moves the zoom slider
ZoomSliderChanged ==
    /\ \E value \in ZoomSteps \ {df.zoom} : df' = zoom_slider_changed(df, value)
    /\ call' = "zoom_slider_changed"
    /\ ret' = Idle

\* the user moves the scroll slider
ScrollSliderChanged ==
    /\ \E value \in ScrollSteps \ {df.scroll} : df' = scroll_slider_changed(df, value)
    /\ call' = "scroll_slider_changed"
    /\ ret' = Idle

ChartNext ==
    \/ PlotFeatures
    \/ ResetZoom
    \/ ZoomSliderChanged
    \/ ScrollSliderChanged

ChartSpec == ChartInit /\ [][ChartNext]_vars

(***************************************************************************)
(* Properties.                                                             *)
(***************************************************************************)
StrictlyIncreasing(t) == \A i \in 1..(Len(t) - 1) : t[i] < t[i + 1]

TraceCalls == {"step_response", "step_calculator"}

\* the trace an estimator call returned
TraceOf == IF call = "step_response" THEN ret.trace ELSE ret

\* round(tenths/10 * fs) for fs = num/dnm samples per second, dnm > 0
RoundedFrameLen(tenths, num, dnm) == (2 * tenths * num + 10 * dnm) \div (20 * dnm)

\* floor(N / (flen / S)) - S for flen > 0
LawWindows(N, flen, S) == ((N * S) \div flen) - S

\* C1: the number of frames a windower emits is floor(N / shift) - S with
\* shift = flen / S and flen = round(frame_seconds * fs), whenever that
\* number is positive (stated for the calls that return a result).
C1_WindowCountLaw ==
    /\ (call = "noise" /\ ret.out.status = "ok") =>
          LET flen == RoundedFrameLen(noise_framelen, ret.time.den, ret.out.dt)
              law  == LawWindows(Len(df.t), flen, noise_superpos)
          IN  (flen > 0 /\ law > 0) => ret.out.frames = law
    /\ (call \in TraceCalls /\ TraceOf.status = "ok") =>
          LET n    == Len(df.t)
              flen == RoundedFrameLen(framelen, df.res * (n - 1), df.t[n] - df.t[1])
              law  == LawWindows(n, flen, superpos)
          IN  (flen > 0 /\ law > 0) => TraceOf.frames = law

\* C2: when the window count is <= 0, or the hop size computes to 0, the
\* windowing estimator returns no result and does not raise (series of at
\* least two samples with a positive sample interval; noise analyzer with
\* its settings file in place).
C2_NoFramesNoResult ==
    /\ (/\ call = "noise"
        /\ Len(df.t) >= 2
        /\ ret.out.dt > 0
        /\ ret.out.exc # "UnboundLocalError"
        /\ (ret.out.shift = 0 \/ ret.out.wins <= 0))
          => ret.out.status = "none"
    /\ (/\ call = "step_response"
        /\ Len(df.t) >= 2
        /\ df.t[Len(df.t)] - df.t[1] > 0
        /\ (ret.trace.shift = 0 \/ ret.trace.wins <= 0))
          => ret.status = "none"

\* C3: resp_low weights exactly the frames with 20 < max_in <= 500.
C3_PrincipalAggregateRange ==
    (call \in TraceCalls /\ TraceOf.status = "ok") =>
        \A i \in 1..TraceOf.frames :
            (TraceOf.resp_low_weights[i] # 0)
                <=> (toolow_threshold < TraceOf.max_in[i] /\ TraceOf.max_in[i] <= threshold)

\* C4 as stated: in both implementations low_mask[i] = 1 implies
\* max_in[i] <= 500 and toolow_mask[i] = 1 implies max_in[i] <= 20.
C4_MaskMonotonicityAsStated ==
    (call \in TraceCalls /\ TraceOf.status = "ok") =>
        \A i \in 1..TraceOf.frames :
            /\ TraceOf.low_mask[i] = 1 => TraceOf.max_in[i] <= threshold
            /\ TraceOf.toolow_mask[i] = 1 => TraceOf.max_in[i] <= toolow_threshold

\* C4 amended: low_mask[i] = 1 implies max_in[i] <= 500 in both
\* implementations; toolow_mask[i] = 1 implies max_in[i] <= 20 in
\* StepResponseCalculator, and implies max_in[i] > 20 in StepTrace, which
\* keeps that mask negated.
C4_MaskMonotonicity ==
    (call \in TraceCalls /\ TraceOf.status = "ok") =>
        \A i \in 1..TraceOf.frames :
            /\ TraceOf.low_mask[i] = 1 => TraceOf.max_in[i] <= threshold
            /\ (call = "step_calculator" /\ TraceOf.toolow_mask[i] = 1)
                  => TraceOf.max_in[i] <= toolow_threshold
            /\ (call = "step_response" /\ TraceOf.toolow_mask[i] = 1)
                  => TraceOf.max_in[i] > toolow_threshold

\* a StepTrace with frames above and below the 500 threshold, some of them
\* marked in toolow_mask
C4_Witness ==
    /\ call = "step_response"
    /\ ret.status = "ok"
    /\ \E i, j, k \in 1..ret.trace.frames :
          /\ ret.trace.low_mask[i] = 1
          /\ ret.trace.max_in[j] > threshold
          /\ ret.trace.toolow_mask[k] = 1

\* C5: a curve drawn from fewer than 100 useful frames is flagged as
\* insufficient, and every report of sufficiency uses that threshold.
C5_QualityGate ==
    call = "detailed_stats" =>
        /\ ret.stats.useful_windows < sufficient_windows_min
              => ret.shown = "Insufficient for reliable analysis"
        /\ ret.stats.sufficient_for_analysis <=> (ret.shown = "Useful windows")

\* the normalised column a call worked on
TimeOf == ret.time

\* C6: the spectrogram, noise and tracking-error entry points divide the
\* column by 1e6 when its maximum exceeds 1e6, else by 1e3 when it exceeds
\* 1e3, else keep it, and then shift it so that its smallest value is zero.
C6_TimeNormalisation ==
    (call \in {"spectrogram", "noise", "tracking_error"} /\ Len(df.t) >= 1) =>
        LET micro == Exceeds(SeqMax(df.t), df.res, micro_limit)
            milli == Exceeds(SeqMax(df.t), df.res, milli_limit)
        IN  /\ micro => TimeOf.den = df.res * 1000000
            /\ (~micro /\ milli) => TimeOf.den = df.res * 1000
            /\ ~milli => TimeOf.den = df.res
            /\ Len(TimeOf.t) = Len(df.t)
            /\ \A i \in 1..Len(df.t) : TimeOf.t[i] = df.t[i] - SeqMin(df.t)
            /\ SeqMin(TimeOf.t) = 0
            /\ StrictlyIncreasing(df.t) => TimeOf.t[1] = 0

\* the tracking-error entry point has normalised a microsecond column
C6_Witness ==
    /\ call = "tracking_error"
    /\ Len(df.t) >= 2
    /\ df.res = 1
    /\ SeqMax(df.t) > micro_limit
    /\ ret.time.den = 1000000
    /\ ret.time.t[1] = 0

\* C7: with fewer than 2 samples every estimator reports "unavailable"
\* instead of raising.
C7_ShortSeriesUnavailable ==
    Len(df.t) < 2 =>
        /\ call = "noise" => ret.out.status = "none"
        /\ call = "spectrogram" => ret.status = "none"
        /\ call = "step_response" => ret.status = "none"

\* C8: with a sample interval dt <= 0 every estimator returns no result;
\* none raises or goes on with fs = 0.
C8_DegenerateIntervalUnavailable ==
    Len(df.t) >= 2 =>
        /\ (call = "noise" /\ ret.time.t[2] - ret.time.t[1] <= 0)
              => ret.out.status = "none"
        /\ (call = "spectrum" /\ ret.fs_zero) => ret.status = "none"
        /\ (call = "spectrogram" /\ ret.n >= 2 /\ ret.span <= 0)
              => ret.status = "none"
        /\ (call = "step_response" /\ df.t[Len(df.t)] - df.t[1] <= 0)
              => ret.status = "none"

\* C9: on a strictly increasing column the sample interval an estimator
\* uses is the mean difference (t[N-1] - t[0]) / (N - 1) (stated for the
\* noise analyzer, on the calls that return a histogram).
C9_DtIsMeanDifference ==
    (/\ call = "noise"
     /\ ret.out.status = "ok"
     /\ StrictlyIncreasing(df.t))
        => ret.out.dt * (Len(df.t) - 1) = ret.time.t[Len(df.t)] - ret.time.t[1]

\* C10: every value of the returned time axis lies strictly inside
\* (1, T - 1) seconds of the log's zero-based time.
C10_SpectrogramAxisInsideClip ==
    (call = "spectrogram" /\ ret.status = "ok") =>
        \A k \in 1..Len(ret.t2) :
            /\ ret.t2[k] * ret.span > 2 * (ret.n - 1) * clip_seconds * ret.time.den
            /\ ret.t2[k] * ret.span
                  < 2 * (ret.n - 1) * (SeqMax(ret.time.t) - clip_seconds * ret.time.den)

\* C11: a series whose total duration is at most 2 seconds makes
\* calculate_spectrogram return None, whatever nperseg and noverlap are.
C11_ShortDurationUnavailable ==
    (call = "spectrogram" /\ SeqMax(ret.time.t) <= 2 * clip_seconds * ret.time.den)
        => ret.status = "none"

\* a spectrogram was asked of a log lasting between one and two seconds
C11_Witness ==
    /\ call = "spectrogram"
    /\ Len(df.t) >= 2
    /\ SeqMax(ret.time.t) > clip_seconds * ret.time.den
    /\ SeqMax(ret.time.t) <= 2 * clip_seconds * ret.time.den
    /\ ret.status = "none"

NoiseCalls == {"noise", "plot_noise"}

\* C12: in every throttle bin that holds frames, each cell of hist2d_norm is
\* the cell of hist2d divided by the number of frames of the bin; a bin
\* without frames is zero.
C12_HistogramNormalisation ==
    (call \in NoiseCalls /\ ret.hist.made) =>
        \A b \in 0..(throttle_bins - 1), r \in 1..FreqRows :
            LET n == Cardinality({f \in 1..ret.out.frames : ret.hist.bins[f] = b})
                c == ret.hist.hist2d_norm[r][b]
            IN  /\ c.den > 0
                /\ n > 0 => c.num * n = ret.hist.hist2d[r][b] * c.den
                /\ n = 0 => c.num = 0

\* a histogram with two bins of several frames each, one of them with a
\* non-zero cell, and a bin without frames
C12_Witness ==
    /\ call = "noise"
    /\ ret.hist.made
    /\ \E b1, b2, b3 \in 0..(throttle_bins - 1) :
          /\ b1 # b2
          /\ ret.hist.throt_hist[b1] >= 2
          /\ ret.hist.throt_hist[b2] >= 2
          /\ ret.hist.throt_hist[b3] = 0
          /\ ret.hist.hist2d[1][b1] > 0

\* C13: every throttle sample handed to the noise analyzer lies in [0, 100]
\* percent; it is (raw - 1000) / 10 clipped when the column exceeds 500 and
\* the raw value clipped otherwise, in both entry points.
C13_ThrottleRange ==
    (call \in NoiseCalls /\ ret.throttle_col # "absent") =>
        LET raw == throttle_column(ret.throttle_col, Len(df.t))
        IN  /\ Len(ret.throttle) = Len(df.t)
            /\ \A i \in 1..Len(df.t) :
                  /\ ret.throttle[i] >= 0
                  /\ ret.throttle[i] <= 1000
                  /\ SeqMax(raw) > rc_units_min
                        => ret.throttle[i] = Clip(raw[i] - 1000, 0, 1000)
                  /\ SeqMax(raw) <= rc_units_min
                        => ret.throttle[i] = Clip(raw[i] * 10, 0, 1000)

\* the combined plot converted a column in RC units with samples below
\* 1000 and above 2000
C13_Witness ==
    /\ call = "plot_noise"
    /\ ret.throttle_col = "rc"
    /\ \E i, j, k \in 1..Len(ret.throttle) :
          /\ ThrottleRaw("rc", i) < 1000 /\ ret.throttle[i] = 0
          /\ ThrottleRaw("rc", j) > 2000 /\ ret.throttle[j] = 1000
          /\ ret.throttle[k] = 500

\* C14: in the weighted-mode average a time column whose histogram sum is
\* zero gets average 0, also when other columns have non-zero sums.
C14_ZeroColumnAverage ==
    (call \in TraceCalls /\ TraceOf.status = "ok") =>
        \A k \in 1..Len(TraceOf.resp_low.avr) :
            TraceOf.resp_low.colsum[k] = 0 => TraceOf.resp_low.avr[k] = "zero"

\* C15: process_gyro_data ends in the same outcome whatever the settings
\* file holds or whether it exists.
C15_NoiseEstimatorPure ==
    (call \in NoiseCalls /\ ret.throttle_col # "absent") =>
        \A settings \in SettingsStates :
            process_gyro_data(ret.time, settings) = ret.out

\* C16: when the throttle column or the channel's own column is absent, no
\* histogram is produced for that channel.
C16_MissingChannelNoHistogram ==
    (call \in NoiseCalls /\ (ret.throttle_col = "absent" \/ ret.channel = "absent"))
        => ~ret.hist.made

\* C18: when the windower emits at least one frame, every frame lies inside
\* the series, i*shift + flen <= N for each frame index i, so that all
\* frames have flen samples.
C18_FramesInsideSeries ==
    /\ (call \in NoiseCalls /\ ret.out.status = "ok") =>
          \A i \in 0..(ret.out.frames - 1) :
              i * ret.out.shift + ret.out.winlen <= Len(df.t)
    /\ (call \in TraceCalls /\ TraceOf.wins > 0 /\ TraceOf.flen > 0) =>
          \A i \in 0..(TraceOf.wins - 1) :
              i * TraceOf.shift + TraceOf.flen <= TraceOf.tlen

\* a/b rounded to the nearest integer (halves upwards), a >= 0 and b > 0
RoundRatio(a, b) ==
    LET q == a \div b
    IN  IF 2 * (a - q * b) >= b THEN q + 1 ELSE q

\* C19: the frame lengths equal frame_seconds * fs rounded to the nearest
\* integer: winlen of the noise windower (0.3 s, fs = 1/dt), and flen
\* (1.0 s) and rlen (0.5 s) of the step-response windowers (fs the rate of
\* the equalised grid), on every call that returns a result.
C19_FrameLengthRounded ==
    /\ (call \in NoiseCalls /\ ret.out.status = "ok") =>
          ret.out.winlen = RoundRatio(noise_framelen * ret.time.den, 10 * ret.out.dt)
    /\ (call \in TraceCalls /\ TraceOf.status = "ok") =>
          LET n    == Len(df.t)
              span == df.t[n] - df.t[1]
          IN  /\ TraceOf.flen = RoundRatio(framelen * df.res * (n - 1), 10 * span)
              /\ TraceOf.rlen = RoundRatio(resplen * df.res * (n - 1), 10 * span)

PadCalls == {"spectrum_pad", "trace_pad", "calculator_pad"}

\* C20: for every frame length L >= 1 the padded length is a multiple of
\* 1024, is at least L, and is the smallest such multiple, so that a frame
\* whose length is already a multiple of 1024 is not lengthened; in
\* spectrum() and in both wiener_deconvolution implementations.
C20_PadToNextMultiple ==
    call \in PadCalls =>
        /\ ret.padded % fft_pad = 0
        /\ ret.padded >= df.frame_len
        /\ ret.padded - fft_pad < df.frame_len

\* C21: on the same log the two step-response implementations stack the
\* same number of frames and give non-zero weight to the same frames in
\* their resp_low aggregate.
C21_SameEstimator ==
    call = "step_calculator" =>
        LET trace == StepTrace(df.res, df.t, df.amp)
        IN  /\ ret.frames = trace.frames
            /\ \A f \in 1..ret.frames :
                   (ret.resp_low_weights[f] # 0) <=> (trace.resp_low_weights[f] # 0)

\* C22: a loaded column is already in zero-based seconds, and an estimator
\* that re-applies the unit heuristic leaves it unchanged: same unit, same
\* values, whatever the duration of the flight.
C22_NormalisationIdempotent ==
    (call \in {"spectrogram", "noise"} /\ Len(df.t) >= 1 /\ SeqMin(df.t) = 0) =>
        /\ TimeOf.den = df.res
        /\ TimeOf.t = df.t

\* C23: whenever calculate_spectrogram reaches the STFT call (at least 2
\* clipped samples, fs > 0), the segment length in effect and the overlap
\* are valid for the clipped data: 1 <= nperseg <= n and
\* 0 <= noverlap < nperseg, for the defaults and for the widget's values.
C23_SegmentParametersValid ==
    (call = "spectrogram" /\ ret.status \in {"ok", "raise"} /\ ret.n >= 2) =>
        /\ 1 <= ret.nperseg
        /\ ret.nperseg <= ret.n
        /\ 0 <= ret.noverlap
        /\ ret.noverlap < ret.nperseg

\* C24: decimate_data returns at most max_points samples, plus at most one
\* appended final sample, and returns an input of at most max_points
\* samples unchanged.
C24_DecimateBounded ==
    call = "decimate" =>
        /\ Len(ret.time) <= max_points + 1
        /\ Len(ret.value) <= max_points + 1
        /\ df.n <= max_points =>
              /\ ret.time = [i \in 1..df.n |-> i]
              /\ ret.value = [i \in 1..df.n |-> i]

\* C25: for an input longer than max_points the returned arrays have equal
\* length, are the same rows of the input in their original order, start
\* with the first row and end with the last (time, value) pair.
C25_DecimateKeepsLastPoint ==
    (call = "decimate" /\ df.n > max_points) =>
        /\ Len(ret.time) = Len(ret.value)
        /\ ret.time = ret.value
        /\ \A k \in 1..(Len(ret.time) - 1) : ret.time[k] < ret.time[k + 1]
        /\ ret.time[1] = 1
        /\ TimeAt(df, ret.time[Len(ret.time)]) = TimeAt(df, df.n)
        /\ ret.value[Len(ret.value)] = df.n

\* C26: while the Frequency Domain tab is active, once a user event has
\* been handled selected_logs holds at most 2 logs, and a plot request on
\* that tab draws at most 2 logs.
C26_AtMostTwoSpectralLogs ==
    df.tab = FrequencyDomainTab =>
        /\ Len(df.selected_logs) <= 2
        /\ call = "plot_selected" => Len(ret.plotted) <= 2

\* four logs were selected at once on the Frequency Domain tab and two are
\* left
C26_Witness ==
    /\ call = "selection"
    /\ df.tab = FrequencyDomainTab
    /\ ret.asked >= 4
    /\ Len(df.selected_logs) = 2
    /\ Len(df.sel) = 2

\* C27: entering the Export tab from a tab p in 0..5 records p as the
\* previous tab and runs the exporter for the plots of tab p; entering it
\* from any other tab exports nothing and only shows the message.
C27_ExportOnEntry ==
    (call = "tab_changed" /\ df.s.tab = ExportTab) =>
        IF df.x.entered_from \in 0..5
        THEN /\ df.x.previous_tab_index = df.x.entered_from
             /\ ret.exported = df.x.entered_from
        ELSE /\ ret.exported = -1
             /\ ret.status = "Please select a valid tab to export from."

\* C28: 'Return to Previous Tab' switches to the tab that was active
\* immediately before the Export tab was entered.
C28_ReturnToPreviousTab ==
    call = "return_to_previous_tab" => df.s.tab = df.x.entered_from

\* C29: a log-selection change made on a tab other than Time Domain leaves
\* the delayed update pending, and when the timer fires on such a tab
\* plot_selected is called.
C29_DelayedUpdatePlots ==
    /\ (call = "selection" /\ df.tab # 0 /\ df.sel # <<>>) => df.timer
    /\ (call = "timer" /\ df.tab # 0) => ret.plot_called

\* C30: whenever the x axis of the time-domain charts is set to its full
\* range (a chart update, reset_zoom, the zoom slider back at 1.0x), its
\* upper bound is a multiple of 5 seconds that is not smaller than the
\* largest time value of the data.
C30_FullRangeCoversData ==
    (/\ df.full_time_range # <<>>
     /\ \/ call \in {"plot_features", "reset_zoom"}
        \/ call \in {"zoom_slider_changed", "scroll_slider_changed"} /\ df.zoom = 0) =>
        /\ df.axis[2] % 5000 = 0
        /\ df.axis[2] >= df.full_time_range[2]

====
